---- MODULE Spec2Model ----
(***************************************************************************)
(* Model of the MGNREGA dashboard's two decision-making subsystems:        *)
(*   - the multi-provider reverse-geocoding fallback chain                 *)
(*     (server/services/multiApiGeolocation.js), and                       *)
(*   - the Maharashtra district leaderboard                                *)
(*     (server/services/maharashtraLeaderboard.js).                        *)
(*                                                                         *)
(* Strings that the code transforms (district names) are modelled at word  *)
(* granularity: a record with the sequence of upper-cased words, a flag    *)
(* for leading/trailing whitespace and a flag for lower-case letters.      *)
(* Words are separated by single blanks.  JavaScript numbers are modelled  *)
(* as exact integers / rationals; scores are kept in hundredths.           *)
(***************************************************************************)
EXTENDS Integers, Sequences, FiniteSets, TLC

VARIABLES
    \* ---- multiApiGeolocation.js ----
    API_KEY,      \* provider -> configured credential (module-level constants)
    pc,           \* position of the running getLiveDistrict call
    coordinates,  \* <<lat, lon>> of the running call
    errors,       \* the local `errors` array of getLiveDistrict
    requests,     \* providers an HTTP request was issued to, in order
    produced,     \* provider -> what its adapter produced in this call
    outcome,      \* what getLiveDistrict returned or threw
    \* ---- maharashtraLeaderboard.js ----
    records,      \* the MGNREGAData collection, in natural (insertion) order
    response,     \* the value the last leaderboard query returned
    \* ---- helper functions called on their own ----
    call,         \* the last application: function, argument, result
    \* ---- liveApiService / dataService / cron jobs ----
    apiKey,       \* DATA_GOV_API_KEY
    cacheMetadata, \* the CacheMetadata collection
    now,          \* Date.now(), in hours
    apiCalls      \* districts fetched from data.gov.in so far

geoVars == <<API_KEY, pc, coordinates, errors, requests, produced, outcome>>
jobVars == <<apiKey, cacheMetadata, now, apiCalls>>
vars == <<API_KEY, pc, coordinates, errors, requests, produced, outcome, records, response, call,
         apiKey, cacheMetadata, now, apiCalls>>

(***************************************************************************)
(* JavaScript strings                                                      *)
(***************************************************************************)
\* JS null / undefined for plain string fields
null == "<null>"

\* a district-name string: words are upper-cased, `lower` records that the
\* original had lower-case letters, `pad` that it had leading/trailing blanks
Str(pad, lower, words) == [nul |-> FALSE, pad |-> pad, lower |-> lower, words |-> words]
NullStr == [nul |-> TRUE, pad |-> FALSE, lower |-> FALSE, words |-> <<>>]
BlankStr == Str(TRUE, FALSE, <<>>)

\* no helper function has been applied
NoCall == [fn |-> "none", arg |-> NullStr, result |-> NullStr, applications |-> 0]

\* JS truthiness of a district-name string: not null and not ""
Truthy(s) == ~s.nul /\ (s.pad \/ s.words # <<>>)

\* JS truthiness of a plain string field
TruthyField(s) == s # null /\ s # ""

(***************************************************************************)
(* District-name normalisation                                             *)
(***************************************************************************)
MAHARASHTRA_DISTRICT_MAP ==
    (<<"AURANGABAD">> :> <<"CHATRAPATI", "SAMBHAJI", "NAGAR">>) @@
    (<<"OSMANABAD">> :> <<"DHARASHIV">>) @@
    (<<"AHMADNAGAR">> :> <<"AHMEDNAGAR">>) @@
    (<<"AHMEDNAGAR">> :> <<"AHMEDNAGAR">>) @@
    (<<"BULDANA">> :> <<"BULDHANA">>) @@
    (<<"GONDIYA">> :> <<"GONDIA">>) @@
    (<<"CHATRAPATI", "SAMBHAJINAGAR">> :> <<"CHATRAPATI", "SAMBHAJI", "NAGAR">>) @@
    (<<"CHHATRAPATI", "SAMBHAJI", "NAGAR">> :> <<"CHATRAPATI", "SAMBHAJI", "NAGAR">>) @@
    (<<"SAMBHAJI", "NAGAR">> :> <<"CHATRAPATI", "SAMBHAJI", "NAGAR">>) @@
    (<<"KARVIR">> :> <<"KOLHAPUR">>) @@
    (<<"ROHA", "TALUKA">> :> <<"RAIGAD">>) @@
    (<<"ROHA">> :> <<"RAIGAD">>) @@
    (<<"NAGPUR", "URBAN", "TALUKA">> :> <<"NAGPUR">>) @@
    (<<"NAGPUR", "URBAN">> :> <<"NAGPUR">>) @@
    (<<"NANDGAON-KHANDESHWAR">> :> <<"AKOLA">>) @@
    (<<"AKOLA", "TALUKA">> :> <<"AKOLA">>) @@
    (<<"PUNE", "CITY", "TALUKA">> :> <<"PUNE">>) @@
    (<<"HAVELI", "TALUKA">> :> <<"PUNE">>) @@
    (<<"MUMBAI", "CITY", "TALUKA">> :> <<"MUMBAI", "SUBURBAN">>) @@
    (<<"MUMBAI", "SUBURBAN", "TALUKA">> :> <<"MUMBAI", "SUBURBAN">>) @@
    (<<"MUMBAI">> :> <<"MUMBAI", "SUBURBAN">>) @@
    (<<"MUMBAI", "CITY">> :> <<"MUMBAI", "SUBURBAN">>) @@
    (<<"GREATER", "MUMBAI">> :> <<"MUMBAI", "SUBURBAN">>) @@
    (<<"THANE">> :> <<"THANE">>) @@
    (<<"PUNE">> :> <<"PUNE">>) @@
    (<<"NAGPUR">> :> <<"NAGPUR">>) @@
    (<<"NASHIK">> :> <<"NASHIK">>) @@
    (<<"AKOLA">> :> <<"AKOLA">>) @@
    (<<"AMRAVATI">> :> <<"AMRAVATI">>) @@
    (<<"SOLAPUR">> :> <<"SOLAPUR">>) @@
    (<<"KOLHAPUR">> :> <<"KOLHAPUR">>) @@
    (<<"RAIGAD">> :> <<"RAIGAD">>) @@
    (<<"RATNAGIRI">> :> <<"RATNAGIRI">>) @@
    (<<"SINDHUDURG">> :> <<"SINDHUDURG">>)

\* .replace(/\s+SUFFIX$/i, ""): the last word is the suffix and a word precedes it
StripSuffix(words, suffix) ==
    IF Len(words) >= 2 /\ words[Len(words)] = suffix
    THEN SubSeq(words, 1, Len(words) - 1)
    ELSE words

normalizeDistrictName_NoLookup(district) ==
    IF ~Truthy(district) THEN NullStr
    ELSE Str(FALSE, FALSE,
             StripSuffix(StripSuffix(StripSuffix(StripSuffix(
                 district.words, "DISTRICT"), "TALUK"), "TALUKA"), "TEHSIL"))

normalizeDistrictName(district) ==
    IF ~Truthy(district) THEN NullStr
    ELSE LET normalized ==
                 StripSuffix(StripSuffix(StripSuffix(StripSuffix(
                     district.words, "DISTRICT"), "TALUK"), "TALUKA"), "TEHSIL")
         IN  IF normalized \in DOMAIN MAHARASHTRA_DISTRICT_MAP
             THEN Str(FALSE, FALSE, MAHARASHTRA_DISTRICT_MAP[normalized])
             ELSE Str(FALSE, FALSE, normalized)

(***************************************************************************)
(* Provider adapters                                                       *)
(*                                                                         *)
(* A provider's answer to the one HTTP request is                          *)
(*   [kind, state, district]                                               *)
(* kind "timeout" / "http_error": axios rejects;                           *)
(* kind "malformed": a 2xx body without the expected payload;              *)
(* kind "ok": a body from which the adapter's field chains extract `state` *)
(*            and `district` (either may be missing).                      *)
(***************************************************************************)
Providers == <<"Google", "MapmyIndia", "Geoapify", "LocationIQ">>
ProviderSet == {Providers[i] : i \in 1..Len(Providers)}

Placeholder(p) ==
    CASE p = "Google"     -> "YOUR_GOOGLE_API_KEY_HERE"
      [] p = "MapmyIndia" -> "YOUR_MAPMYINDIA_API_KEY_HERE"
      [] p = "Geoapify"   -> "YOUR_GEOAPIFY_API_KEY_HERE"
      [] p = "LocationIQ" -> "YOUR_LOCATIONIQ_API_KEY_HERE"

\* process.env.X when the variable is not set
undefined == "<undefined>"

\* `KEY && KEY !== 'YOUR_..._API_KEY_HERE'`
Configured_NoPlaceholderCheck(p) ==
    /\ API_KEY[p] # undefined
    /\ API_KEY[p] # ""

Configured(p) ==
    /\ API_KEY[p] # undefined
    /\ API_KEY[p] # ""
    /\ API_KEY[p] # Placeholder(p)

\* no provider payload at hand
NoRaw == [kind |-> "none", state |-> null, district |-> NullStr]

Threw(msg) ==
    [threw |-> TRUE, message |-> msg, state |-> null, district |-> NullStr,
     source |-> null, coordinates |-> <<>>, raw |-> NoRaw]
\* the `location` object; `raw` is the provider payload it was built from
Returned(state, district, source, lat, lon, raw) ==
    [threw |-> FALSE, message |-> null, state |-> state, district |-> district,
     source |-> source, coordinates |-> <<lat, lon>>, raw |-> raw]
NotCalled ==
    [threw |-> FALSE, message |-> null, state |-> null, district |-> NullStr,
     source |-> null, coordinates |-> <<>>, raw |-> NoRaw]

TimeoutMessage(ms) ==
    CASE ms = 10000 -> "timeout of 10000ms exceeded"
      [] ms = 5000  -> "timeout of 5000ms exceeded"
HttpErrorMessage == "Request failed with status code 429"

reverseGeocodeGoogle(lat, lon, resp) ==
    IF ~Configured("Google") THEN Threw("Google Geocoding API key not configured")
    ELSE IF resp.kind = "timeout" THEN Threw(TimeoutMessage(10000))
    ELSE IF resp.kind = "http_error" THEN Threw(HttpErrorMessage)
    ELSE IF resp.kind = "malformed" THEN Threw("Google API returned status: UNKNOWN")
    ELSE LET normalizedDistrict == normalizeDistrictName(resp.district)
         IN  IF ~TruthyField(resp.state) \/ ~Truthy(normalizedDistrict)
             THEN Threw("Could not extract state or district from Google response")
             ELSE Returned(resp.state, normalizedDistrict, "Google", lat, lon, resp)

\* the `Normalize for Maharashtra` block shared by the three fallback adapters
NormalizeForMaharashtra_Never(state, district) == district

NormalizeForMaharashtra(state, district) ==
    IF state = "Maharashtra" /\ Truthy(district)
    THEN normalizeDistrictName(district)
    ELSE district

reverseGeocodeMapMyIndia(lat, lon, resp) ==
    IF ~Configured("MapmyIndia") THEN Threw("MapmyIndia API key not configured")
    ELSE IF resp.kind = "timeout" THEN Threw(TimeoutMessage(5000))
    ELSE IF resp.kind = "http_error" THEN Threw(HttpErrorMessage)
    ELSE IF resp.kind = "malformed" THEN Threw("MapmyIndia API error: undefined")
    ELSE Returned(resp.state, NormalizeForMaharashtra(resp.state, resp.district),
                  "MapmyIndia", lat, lon, resp)

reverseGeocodeGeoapify(lat, lon, resp) ==
    IF ~Configured("Geoapify") THEN Threw("Geoapify API key not configured")
    ELSE IF resp.kind = "timeout" THEN Threw(TimeoutMessage(5000))
    ELSE IF resp.kind = "http_error" THEN Threw(HttpErrorMessage)
    ELSE IF resp.kind = "malformed" THEN Threw("No results from Geoapify")
    ELSE Returned(resp.state, NormalizeForMaharashtra(resp.state, resp.district),
                  "Geoapify", lat, lon, resp)

\* a body without `address` is read as an empty address: no throw
reverseGeocodeLocationIQ(lat, lon, resp) ==
    IF ~Configured("LocationIQ") THEN Threw("LocationIQ API key not configured")
    ELSE IF resp.kind = "timeout" THEN Threw(TimeoutMessage(5000))
    ELSE IF resp.kind = "http_error" THEN Threw(HttpErrorMessage)
    ELSE IF resp.kind = "malformed" THEN Returned(null, NullStr, "LocationIQ", lat, lon, resp)
    ELSE Returned(resp.state, NormalizeForMaharashtra(resp.state, resp.district),
                  "LocationIQ", lat, lon, resp)

Adapter(p, lat, lon, resp) ==
    CASE p = "Google"     -> reverseGeocodeGoogle(lat, lon, resp)
      [] p = "MapmyIndia" -> reverseGeocodeMapMyIndia(lat, lon, resp)
      [] p = "Geoapify"   -> reverseGeocodeGeoapify(lat, lon, resp)
      [] p = "LocationIQ" -> reverseGeocodeLocationIQ(lat, lon, resp)

\* what the providers can answer
ResponseStates == {null, "Maharashtra", "MAHARASHTRA", "Karnataka"}
ResponseDistricts ==
    {NullStr, BlankStr,
     Str(FALSE, FALSE, <<"AURANGABAD">>),
     Str(TRUE, TRUE, <<"PUNE", "DISTRICT">>)}
Responses ==
    {[kind |-> k, state |-> null, district |-> NullStr] :
        k \in {"timeout", "http_error", "malformed"}}
    \cup {[kind |-> "ok", state |-> s, district |-> d] :
            s \in ResponseStates, d \in ResponseDistricts}

KeyValues(p) == {undefined, Placeholder(p), "live-key"}
Coordinates == {<<19, 73>>, <<12, 77>>}

(***************************************************************************)
(* getLiveDistrict: the fallback chain                                     *)
(***************************************************************************)
\* `new Error(message)`: an error object with a message and nothing attached
Error(message) ==
    [kind |-> "throw", value |-> NotCalled, message |-> message, attached |-> <<>>]
Return(result) ==
    [kind |-> "return", value |-> result, message |-> null, attached |-> <<>>]
Pending ==
    [kind |-> "pending", value |-> NotCalled, message |-> null, attached |-> <<>>]

ALL_FAILED == "District detection unavailable. All geocoding APIs failed."

\* the block that follows provider p's block
NextStage_SkipsMapMyIndia(p) ==
    CASE p = "Google"     -> "Geoapify"
      [] p = "MapmyIndia" -> "Geoapify"
      [] p = "Geoapify"   -> "LocationIQ"
      [] p = "LocationIQ" -> "exhausted"

NextStage_GivesUp(p) == "exhausted"

NextStage(p) ==
    CASE p = "Google"     -> "MapmyIndia"
      [] p = "MapmyIndia" -> "Geoapify"
      [] p = "Geoapify"   -> "LocationIQ"
      [] p = "LocationIQ" -> "exhausted"

\* `if (result.district && result.state)`
Sufficient_MaharashtraOnly(result) ==
    Truthy(result.district) /\ result.state = "Maharashtra"

Sufficient(result) == Truthy(result.district) /\ TruthyField(result.state)

GeoInit ==
    /\ API_KEY \in [ProviderSet -> {undefined, "live-key"} \cup {Placeholder(p) : p \in ProviderSet}]
    /\ \A p \in ProviderSet : API_KEY[p] \in KeyValues(p)
    /\ pc = "idle"
    /\ coordinates = <<>>
    /\ errors = <<>>
    /\ requests = <<>>
    /\ produced = [p \in ProviderSet |-> NotCalled]
    /\ outcome = Pending
    /\ records = <<>>
    /\ response = [op |-> "none", arg |-> 0, success |-> FALSE, data |-> <<>>]
    /\ call = NoCall
    /\ apiKey = undefined
    /\ cacheMetadata = <<>>
    /\ now = 0
    /\ apiCalls = {}

\* entry of getLiveDistrict(lat, lon)
GetLiveDistrict(lat, lon) ==
    /\ pc \in {"idle", "returned", "threw"}
    /\ pc' = "Google"
    /\ coordinates' = <<lat, lon>>
    /\ errors' = <<>>
    /\ requests' = <<>>
    /\ produced' = [p \in ProviderSet |-> NotCalled]
    /\ outcome' = Pending
    /\ UNCHANGED <<API_KEY, records, response, call, jobVars>>

\* one `if (KEY && KEY !== placeholder) { try { ... } catch { ... } } else { ... }` block
Stage(p) ==
    /\ pc = p
    /\ IF Configured(p)
       THEN \E resp \in Responses :
              LET result == Adapter(p, coordinates[1], coordinates[2], resp) IN
              /\ requests' = Append(requests, p)
              /\ produced' = [produced EXCEPT ![p] = result]
              /\ IF result.threw
                 THEN /\ errors' = Append(errors, [api |-> p, error |-> result.message])
                      /\ pc' = NextStage(p)
                      /\ UNCHANGED outcome
                 ELSE IF Sufficient(result)
                 THEN /\ pc' = "returned"
                      /\ outcome' = Return(result)
                      /\ UNCHANGED errors
                 ELSE /\ pc' = NextStage(p)
                      /\ UNCHANGED <<errors, outcome>>
       ELSE /\ pc' = NextStage(p)
            /\ UNCHANGED <<errors, requests, produced, outcome>>
    /\ UNCHANGED <<API_KEY, coordinates, records, response, call, jobVars>>

TryGoogle == Stage("Google")
TryMapMyIndia == Stage("MapmyIndia")
TryGeoapify == Stage("Geoapify")
TryLocationIQ == Stage("LocationIQ")

\* `throw new Error('District detection unavailable. ...')`
AllApisFailed ==
    /\ pc = "exhausted"
    /\ pc' = "threw"
    /\ outcome' = Error(ALL_FAILED)
    /\ UNCHANGED <<API_KEY, coordinates, errors, requests, produced, records, response, call, jobVars>>

GeoNext ==
    \/ \E c \in Coordinates : GetLiveDistrict(c[1], c[2])
    \/ TryGoogle
    \/ TryMapMyIndia
    \/ TryGeoapify
    \/ TryLocationIQ
    \/ AllApisFailed

(***************************************************************************)
(* Properties of the fallback chain                                        *)
(***************************************************************************)
Position(p) == CHOOSE i \in 1..Len(Providers) : Providers[i] = p
Successor(p) ==
    IF Position(p) < Len(Providers) THEN Providers[Position(p) + 1] ELSE "exhausted"
Called(p) == \E i \in 1..Len(requests) : requests[i] = p
Finished == pc \in {"returned", "threw"}
Unconfigured(p) == API_KEY[p] \in {undefined, Placeholder(p)}
First(S) == CHOOSE p \in S : \A q \in S : Position(p) <= Position(q)

\* the adapter produced a result whose state and district are not null
NonNullResult(r) == r.source # null /\ r.state # null /\ ~r.district.nul
\* ... and, moreover, not the empty string
NonEmptyResult(r) ==
    /\ NonNullResult(r)
    /\ r.state # ""
    /\ (r.district.pad \/ r.district.words # <<>>)

YieldedNonNull == {p \in ProviderSet : NonNullResult(produced[p])}
YieldedNonEmpty == {p \in ProviderSet : NonEmptyResult(produced[p])}

NoConfiguredProviderPassedOver ==
    /\ outcome.kind = "return" =>
          \A q \in ProviderSet :
              (~Unconfigured(q) /\ Position(q) < Position(outcome.value.source)) => Called(q)
    /\ outcome.kind = "throw" =>
          \A q \in ProviderSet : ~Unconfigured(q) => Called(q)

\* C1 (as stated): when the call has finished and some configured provider
\* yielded a result with non-null state and non-null district, the call
\* returned the result of the first such provider in priority order.
C1_FirstNonNullReturned ==
    Finished =>
        /\ YieldedNonNull # {} => outcome = Return(produced[First(YieldedNonNull)])
        /\ NoConfiguredProviderPassedOver

\* C1 (amended): when the call has finished and some configured provider
\* yielded a result with non-empty state and non-empty district, the call
\* returned the result of the first such provider in priority order, and no
\* configured provider ahead of it was passed over.
C1_FirstNonEmptyReturned ==
    Finished =>
        /\ YieldedNonEmpty # {} => outcome = Return(produced[First(YieldedNonEmpty)])
        /\ NoConfiguredProviderPassedOver

\* the third provider's result is returned after the first two were tried
C1_Witness ==
    /\ pc = "returned"
    /\ requests = <<"Google", "MapmyIndia", "Geoapify">>
    /\ outcome.value.source = "Geoapify"
    /\ outcome.value.district.words = <<"CHATRAPATI", "SAMBHAJI", "NAGAR">>

\* C2 (as stated): once a provider has produced a result with non-null state
\* and non-null district, no request is issued to any later provider.
C2_NoRequestAfterNonNull ==
    \A p \in YieldedNonNull : \A q \in ProviderSet :
        Position(q) > Position(p) => ~Called(q)

\* C2 (amended): once a provider has produced a result with non-empty state
\* and non-empty district, no request is issued to any later provider.
C2_NoRequestAfterNonEmpty ==
    \A p \in YieldedNonEmpty : \A q \in ProviderSet :
        Position(q) > Position(p) => ~Called(q)

\* the first provider succeeded while a later provider was configured
C2_Witness ==
    /\ pc = "returned"
    /\ requests = <<"Google">>
    /\ "Google" \in YieldedNonEmpty
    /\ ~Unconfigured("MapmyIndia")
    /\ ~Unconfigured("LocationIQ")

\* C3: a provider whose key is absent or is its placeholder is skipped: its
\* block issues no request, records nothing and hands over to the next
\* provider in order; such a provider is never among those requested.
C3_UnconfiguredSkipped ==
    [][\A p \in ProviderSet :
           (pc = p /\ Unconfigured(p)) =>
               /\ pc' = Successor(p)
               /\ requests' = requests
               /\ errors' = errors
               /\ outcome' = outcome]_vars

\* an absent key and a placeholder key were both skipped without a request
C3_Witness ==
    /\ pc = "Geoapify"
    /\ API_KEY["Google"] = undefined
    /\ API_KEY["MapmyIndia"] = Placeholder("MapmyIndia")
    /\ requests = <<>>

\* C4: when a provider's adapter throws, the call goes on to the next
\* provider in order with its failure recorded, and the call fails only
\* after every configured provider has been requested.
C4_FailureNeverAborts ==
    [][/\ \A p \in ProviderSet :
              (pc = p /\ produced'[p].threw) =>
                  /\ pc' = Successor(p)
                  /\ outcome' = Pending
                  /\ errors' = Append(errors, [api |-> p, error |-> produced'[p].message])
       /\ pc' = "threw" =>
              \A p \in ProviderSet :
                  ~Unconfigured(p) => \E i \in 1..Len(requests') : requests'[i] = p]_vars

\* three providers failed (timeout, HTTP error, malformed body) and the
\* fourth one's result was returned
C4_Witness ==
    /\ pc = "returned"
    /\ Len(errors) = 3
    /\ \E i \in 1..3 : errors[i].error = TimeoutMessage(5000)
    /\ \E i \in 1..3 : errors[i].error = HttpErrorMessage
    /\ outcome.value.source = "LocationIQ"

\* what the claim expects the final error to carry: one entry per provider,
\* in order, telling whether it was skipped, failed or attempted, and why
FailureTrail ==
    [i \in 1..Len(Providers) |->
        LET p == Providers[i] IN
        IF Unconfigured(p)
        THEN [api |-> p, status |-> "skipped", reason |-> "API key not configured"]
        ELSE IF produced[p].threw
        THEN [api |-> p, status |-> "failed", reason |-> produced[p].message]
        ELSE [api |-> p, status |-> "attempted", reason |-> "no state or district"]]

\* C5: when every provider is exhausted, the error the call fails with
\* carries the ordered per-provider failure trail.
C5_ErrorCarriesTrail ==
    pc = "threw" => outcome.attached = FailureTrail

\* the adapter of provider p returned a location built from a 2xx payload
ReturnedFromPayload(p) == produced[p].source # null /\ produced[p].raw.kind = "ok"

\* String.prototype.toLowerCase on a state name
LowerCaseState(s) ==
    CASE s = "Maharashtra" -> "maharashtra"
      [] s = "MAHARASHTRA" -> "maharashtra"
      [] s = "Karnataka"   -> "karnataka"
      [] OTHER             -> s

\* C15: for every provider, when the extracted state is not Maharashtra the
\* returned district is exactly the extracted string.
C15_OtherStatesPassThrough ==
    \A p \in ProviderSet :
        (ReturnedFromPayload(p) /\ produced[p].raw.state # "Maharashtra") =>
            produced[p].district = produced[p].raw.district

\* C16: with Google unconfigured, MapmyIndia timing out and Geoapify
\* answering state Maharashtra, district AURANGABAD, the call returns
\* Geoapify's result with district CHATRAPATI SAMBHAJI NAGAR.
C16_Scenario ==
    (/\ Unconfigured("Google")
     /\ produced["MapmyIndia"].threw
     /\ produced["MapmyIndia"].message = TimeoutMessage(5000)
     /\ ReturnedFromPayload("Geoapify")
     /\ produced["Geoapify"].raw.state = "Maharashtra"
     /\ produced["Geoapify"].raw.district = Str(FALSE, FALSE, <<"AURANGABAD">>))
    => /\ pc = "returned"
       /\ outcome.kind = "return"
       /\ outcome.value.source = "Geoapify"
       /\ outcome.value.state = "Maharashtra"
       /\ outcome.value.district = Str(FALSE, FALSE, <<"CHATRAPATI", "SAMBHAJI", "NAGAR">>)
       /\ requests = <<"MapmyIndia", "Geoapify">>

\* the scenario has run
C16_Witness ==
    /\ API_KEY["Google"] = undefined
    /\ errors = <<[api |-> "MapmyIndia", error |-> TimeoutMessage(5000)]>>
    /\ produced["Geoapify"].raw.district = Str(FALSE, FALSE, <<"AURANGABAD">>)
    /\ produced["Geoapify"].raw.state = "Maharashtra"
    /\ outcome.kind = "return"

\* C18: a provider that answers without error but yields no state or no
\* district gets an entry in the failure trail before the chain continues.
C18_InsufficientRecorded ==
    [][\A p \in ProviderSet :
           (/\ pc = p
            /\ requests' = Append(requests, p)
            /\ ~produced'[p].threw
            /\ pc' # "returned") =>
               /\ Len(errors') = Len(errors) + 1
               /\ errors'[Len(errors')].api = p]_vars

\* C19 (as stated): whenever the extracted state equals 'Maharashtra'
\* regardless of letter case, the returned district is normalizeDistrictName
\* of the extracted district.
C19_NormalizedIgnoringCase ==
    \A p \in ProviderSet :
        (ReturnedFromPayload(p) /\ LowerCaseState(produced[p].raw.state) = "maharashtra") =>
            produced[p].district = normalizeDistrictName(produced[p].raw.district)

\* C19 (amended): whenever the extracted state is exactly 'Maharashtra',
\* the returned district is normalizeDistrictName of the extracted district.
C19_NormalizedForExactState ==
    \A p \in ProviderSet :
        (ReturnedFromPayload(p) /\ produced[p].raw.state = "Maharashtra") =>
            produced[p].district = normalizeDistrictName(produced[p].raw.district)

\* the last fallback returned " Pune District " of Maharashtra as PUNE
C19_Witness ==
    /\ ReturnedFromPayload("LocationIQ")
    /\ produced["LocationIQ"].raw.state = "Maharashtra"
    /\ produced["LocationIQ"].raw.district = Str(TRUE, TRUE, <<"PUNE", "DISTRICT">>)
    /\ outcome.kind = "return"
    /\ outcome.value.district = Str(FALSE, FALSE, <<"PUNE">>)

(***************************************************************************)
(* The Maharashtra district leaderboard                                    *)
(*                                                                         *)
(* `records` holds the Maharashtra documents of the MGNREGAData collection *)
(* in natural order.  Amounts are non-negative integers; a missing field   *)
(* reads as 0 (`|| 0`).  Scores are kept in hundredths: 10000 is 100.00.   *)
(***************************************************************************)
MaxRecords == 3
MaxPersonDays == 1
MaxExpenditure == 2
MaxLimit == 3

Districts == {"PUNE", "NASHIK", "AKOLA"}
Years == {2023, 2024}

Max(a, b) == IF a >= b THEN a ELSE b
Min(a, b) == IF a <= b THEN a ELSE b

Document(d, y, pd, ex) ==
    [district |-> d, year |-> y,
     total_persondays_generated |-> pd, total_expenditure |-> ex]

\* documents of the last year carry any amounts; one document of an earlier
\* year carries the largest ones
Documents ==
    {Document(d, 2024, pd, ex) :
        d \in Districts, pd \in 0..MaxPersonDays, ex \in 0..MaxExpenditure}
    \cup {Document("AKOLA", 2023, MaxPersonDays, MaxExpenditure)}

\* Math.round(num / den) for den > 0
MathRound(num, den) == (2 * num + den) \div (2 * den)

RECURSIVE Sum(_)
Sum(values) == IF values = <<>> THEN 0 ELSE values[1] + Sum(Tail(values))

\* Math.max(...values, floor)
MathMax_Total(values, floor) == Max(Sum(values), floor)

RECURSIVE MathMax(_, _)
MathMax(values, floor) ==
    IF values = <<>> THEN floor
    ELSE Max(values[1], MathMax(Tail(values), floor))

\* the ratios pd/maxPd and ex/maxEx are kept in lowest terms
RECURSIVE GCD(_, _)
GCD(m, n) == IF n = 0 THEN m ELSE GCD(n, m % n)

\* score in hundredths:
\* Math.round((pd/maxPd * 0.6 + ex/maxEx * 0.4) * 100 * 100) / 100
calculatePerformanceScore_Unweighted(districtData, maxPersonDays, maxExpenditure) ==
    LET metrics == districtData.metrics
        pdNum == IF maxPersonDays > 0 THEN metrics.totalPersonDays ELSE 0
        pdDen == IF maxPersonDays > 0 THEN maxPersonDays ELSE 1
        exNum == IF maxExpenditure > 0 THEN metrics.totalExpenditure ELSE 0
        exDen == IF maxExpenditure > 0 THEN maxExpenditure ELSE 1
    IN  MathRound(10000 * pdNum * exDen + 10000 * exNum * pdDen, pdDen * exDen)

calculatePerformanceScore(districtData, maxPersonDays, maxExpenditure) ==
    LET metrics == districtData.metrics
        pdNum == IF maxPersonDays > 0 THEN metrics.totalPersonDays ELSE 0
        pdDen == IF maxPersonDays > 0 THEN maxPersonDays ELSE 1
        exNum == IF maxExpenditure > 0 THEN metrics.totalExpenditure ELSE 0
        exDen == IF maxExpenditure > 0 THEN maxExpenditure ELSE 1
        pdG == GCD(pdNum, pdDen)
        exG == GCD(exNum, exDen)
        a == pdNum \div pdG
        b == pdDen \div pdG
        c == exNum \div exG
        d == exDen \div exG
    IN  MathRound(6000 * a * d + 4000 * c * b, b * d)

\* the Marathi labels, transliterated
getPerformanceCategory_StrictThresholds(score) ==
    IF score > 8000
    THEN [label |-> "utkrusht", labelEn |-> "Excellent", color |-> "green"]
    ELSE IF score > 6000
    THEN [label |-> "changle", labelEn |-> "Good", color |-> "yellow"]
    ELSE IF score > 4000
    THEN [label |-> "sarasari", labelEn |-> "Average", color |-> "orange"]
    ELSE [label |-> "sudharana avashyak", labelEn |-> "Needs Improvement", color |-> "red"]

getPerformanceCategory(score) ==
    IF score >= 8000
    THEN [label |-> "utkrusht", labelEn |-> "Excellent", color |-> "green"]
    ELSE IF score >= 6000
    THEN [label |-> "changle", labelEn |-> "Good", color |-> "yellow"]
    ELSE IF score >= 4000
    THEN [label |-> "sarasari", labelEn |-> "Average", color |-> "orange"]
    ELSE [label |-> "sudharana avashyak", labelEn |-> "Needs Improvement", color |-> "red"]

\* findOne({state}).sort({year: -1, month: -1}).year
LatestYear(recs) ==
    CHOOSE y \in {recs[i].year : i \in 1..Len(recs)} :
        \A i \in 1..Len(recs) : recs[i].year <= y

\* find({state, year: latestYear})
LatestRows(recs) ==
    LET latestYear == LatestYear(recs)
    IN  SelectSeq(recs, LAMBDA r : r.year = latestYear)

\* key order of districtMap: districts in order of first appearance
RECURSIVE DistrictOrder(_)
DistrictOrder(rows) ==
    IF rows = <<>> THEN <<>>
    ELSE LET before == DistrictOrder(SubSeq(rows, 1, Len(rows) - 1))
             d == rows[Len(rows)].district
         IN  IF \E i \in 1..Len(before) : before[i] = d
             THEN before
             ELSE Append(before, d)

\* record.field || 0: a field the document does not have reads as 0
OrZero(record, field) ==
    IF field \in DOMAIN record THEN record[field] ELSE 0

\* the values of one field over the rows, each read with || 0
FieldValues(rows, field) ==
    [i \in 1..Len(rows) |-> OrZero(rows[i], field)]

\* the districtMap entry of district d after the forEach over the rows
DistrictData_HouseholdsSummed(rows, d) ==
    LET own == SelectSeq(rows, LAMBDA r : r.district = d)
        wages == Sum(FieldValues(own, "average_wage_per_day"))
    IN  [district |-> d,
         totalPersonDays |-> Sum(FieldValues(own, "total_persondays_generated")),
         totalExpenditure |-> Sum(FieldValues(own, "total_expenditure")),
         householdsWorked |-> Sum(FieldValues(own, "total_households_worked")),
         worksCompleted |-> Sum(FieldValues(own, "total_completed_works")),
         worksInProgress |-> Sum(FieldValues(own, "total_ongoing_works")),
         avgWageRate |-> IF Len(own) > 0 THEN MathRound(wages, Len(own)) ELSE 0,
         monthsCount |-> Len(own)]

DistrictData(rows, d) ==
    LET own == SelectSeq(rows, LAMBDA r : r.district = d)
        wages == Sum(FieldValues(own, "average_wage_per_day"))
    IN  [district |-> d,
         totalPersonDays |-> Sum(FieldValues(own, "total_persondays_generated")),
         totalExpenditure |-> Sum(FieldValues(own, "total_expenditure")),
         householdsWorked |-> MathMax(FieldValues(own, "total_households_worked"), 0),
         worksCompleted |-> Sum(FieldValues(own, "total_completed_works")),
         worksInProgress |-> Sum(FieldValues(own, "total_ongoing_works")),
         avgWageRate |-> IF Len(own) > 0 THEN MathRound(wages, Len(own)) ELSE 0,
         monthsCount |-> Len(own)]

\* Array.from(districtMap.values())
AllData(rows) ==
    LET order == DistrictOrder(rows)
    IN  [i \in 1..Len(order) |-> DistrictData(rows, order[i])]

\* allData.map(data => ({rank: 0, ...}))
Scored(allData) ==
    LET maxPersonDays ==
            MathMax([i \in 1..Len(allData) |-> allData[i].totalPersonDays], 1)
        maxExpenditure ==
            MathMax([i \in 1..Len(allData) |-> allData[i].totalExpenditure], 1)
    IN  [i \in 1..Len(allData) |->
            LET data == allData[i]
                score == calculatePerformanceScore([metrics |-> data],
                                                   maxPersonDays, maxExpenditure)
            IN  [rank |-> 0,
                 district |-> data.district,
                 score |-> score,
                 employment |-> data.totalPersonDays,
                 category |-> getPerformanceCategory(score).label,
                 categoryColor |-> getPerformanceCategory(score).color,
                 metrics |-> [totalPersonDays |-> data.totalPersonDays,
                              totalExpenditure |-> data.totalExpenditure,
                              householdsWorked |-> data.householdsWorked,
                              worksCompleted |-> data.worksCompleted,
                              worksInProgress |-> data.worksInProgress,
                              avgWageRate |-> data.avgWageRate]]]

\* leaderboard.sort((a, b) => b.score - a.score): stable, descending
RECURSIVE SortByScore_Unstable(_)
SortByScore_Unstable(entries) ==
    IF entries = <<>> THEN <<>>
    ELSE LET sorted == SortByScore_Unstable(SubSeq(entries, 1, Len(entries) - 1))
             e == entries[Len(entries)]
             k == Cardinality({i \in 1..Len(sorted) : sorted[i].score > e.score})
         IN  SubSeq(sorted, 1, k) \o <<e>> \o SubSeq(sorted, k + 1, Len(sorted))

RECURSIVE SortByScore(_)
SortByScore(entries) ==
    IF entries = <<>> THEN <<>>
    ELSE LET sorted == SortByScore(SubSeq(entries, 1, Len(entries) - 1))
             e == entries[Len(entries)]
             k == Cardinality({i \in 1..Len(sorted) : sorted[i].score >= e.score})
         IN  SubSeq(sorted, 1, k) \o <<e>> \o SubSeq(sorted, k + 1, Len(sorted))

\* leaderboard.forEach((item, index) => { item.rank = index + 1 })
AssignRanks_SharedOnTies(entries) ==
    [i \in 1..Len(entries) |->
        [entries[i] EXCEPT !.rank =
            1 + Cardinality({j \in 1..Len(entries) : entries[j].score > entries[i].score})]]

AssignRanks(entries) ==
    [i \in 1..Len(entries) |-> [entries[i] EXCEPT !.rank = i]]

getMaharashtraLeaderboard_PlaceholderWhenEmpty(recs) ==
    IF recs = <<>>
    THEN [success |-> FALSE, year |-> 0, totalDistricts |-> 0,
          leaderboard |-> <<[rank |-> 1, district |-> "No data", score |-> 0,
                             employment |-> 0, category |-> "sudharana avashyak",
                             categoryColor |-> "red",
                             metrics |-> [totalPersonDays |-> 0,
                                          totalExpenditure |-> 0,
                                          householdsWorked |-> 0,
                                          worksCompleted |-> 0,
                                          worksInProgress |-> 0,
                                          avgWageRate |-> 0]]>>]
    ELSE LET leaderboard == AssignRanks(SortByScore(Scored(AllData(LatestRows(recs)))))
         IN  [success |-> TRUE,
              year |-> LatestYear(recs),
              totalDistricts |-> Len(leaderboard),
              leaderboard |-> leaderboard]

getMaharashtraLeaderboard(recs) ==
    IF recs = <<>>
    THEN [success |-> FALSE, year |-> 0, totalDistricts |-> 0, leaderboard |-> <<>>]
    ELSE LET leaderboard == AssignRanks(SortByScore(Scored(AllData(LatestRows(recs)))))
         IN  [success |-> TRUE,
              year |-> LatestYear(recs),
              totalDistricts |-> Len(leaderboard),
              leaderboard |-> leaderboard]

\* Array.prototype.slice(start, end)
Slice(array, start, end) ==
    LET len == Len(array)
        from == IF start < 0 THEN Max(len + start, 0) ELSE Min(start, len)
        to == IF end < 0 THEN Max(len + end, 0) ELSE Min(end, len)
    IN  SubSeq(array, from + 1, to)

getTopDistricts(recs, limit) ==
    LET leaderboardData == getMaharashtraLeaderboard(recs)
    IN  IF ~leaderboardData.success THEN <<>>
        ELSE Slice(leaderboardData.leaderboard, 0, limit)

\* ---- operations ----
NoResponse == [op |-> "none", arg |-> 0, success |-> FALSE, data |-> <<>>]

BoardInit ==
    /\ records = <<>>
    /\ response = NoResponse
    /\ API_KEY = [p \in ProviderSet |-> undefined]
    /\ pc = "idle"
    /\ coordinates = <<>>
    /\ errors = <<>>
    /\ requests = <<>>
    /\ produced = [p \in ProviderSet |-> NotCalled]
    /\ outcome = Pending
    /\ call = NoCall
    /\ apiKey = undefined
    /\ cacheMetadata = <<>>
    /\ now = 0
    /\ apiCalls = {}

\* a document is written to the collection
StoreDocument(doc) ==
    /\ response = NoResponse
    /\ Len(records) < MaxRecords
    /\ records' = Append(records, doc)
    /\ response' = NoResponse
    /\ UNCHANGED <<geoVars, call, jobVars>>

\* GET /api/maharashtra/leaderboard
GetMaharashtraLeaderboard ==
    /\ response = NoResponse
    /\ LET leaderboardData == getMaharashtraLeaderboard(records)
       IN  response' = [op |-> "leaderboard", arg |-> 0,
                        success |-> leaderboardData.success,
                        data |-> leaderboardData.leaderboard]
    /\ UNCHANGED <<records>>
    /\ UNCHANGED <<geoVars, call, jobVars>>

\* leaderboardService.getTopDistricts(limit)
GetTopDistricts(limit) ==
    /\ response = NoResponse
    /\ response' = [op |-> "top", arg |-> limit, success |-> TRUE,
                    data |-> getTopDistricts(records, limit)]
    /\ UNCHANGED <<records>>
    /\ UNCHANGED <<geoVars, call, jobVars>>

\* GET /api/maharashtra/top/:limit?  with  parseInt(req.params.limit) || 10;
\* param 0 stands for "0", an absent or a non-numeric parameter alike
TopRoute(param) ==
    /\ response = NoResponse
    /\ LET limit == IF param = 0 THEN 10 ELSE param
       IN  response' = [op |-> "top", arg |-> limit, success |-> TRUE,
                        data |-> getTopDistricts(records, limit)]
    /\ UNCHANGED <<records>>
    /\ UNCHANGED <<geoVars, call, jobVars>>

\* res.json(...): the response has gone out, the handler is done
Respond ==
    /\ response # NoResponse
    /\ response' = NoResponse
    /\ UNCHANGED <<records>>
    /\ UNCHANGED <<geoVars, call, jobVars>>

Limits == (0 - 1)..MaxLimit
RouteParams == {0 - 1, 0, 2}

BoardNext ==
    \/ \E doc \in Documents : StoreDocument(doc)
    \/ GetMaharashtraLeaderboard
    \/ \E limit \in Limits : GetTopDistricts(limit)
    \/ \E param \in RouteParams : TopRoute(param)
    \/ Respond

SpecBoard == BoardInit /\ [][BoardNext]_vars

SpecGeo == GeoInit /\ [][GeoNext]_vars

(***************************************************************************)
(* Properties of the leaderboard                                           *)
(***************************************************************************)
IsLeaderboard == response.op = "leaderboard" /\ response.success
Board == response.data
Positions == 1..Len(response.data)

NewestYear == CHOOSE y \in Years : /\ \E k \in 1..Len(records) : records[k].year = y
                                   /\ \A k \in 1..Len(records) : records[k].year <= y
InputRows == {k \in 1..Len(records) : records[k].year = NewestYear}
InputDistricts == {records[k].district : k \in InputRows}
FirstRow(d) == CHOOSE k \in InputRows :
                  /\ records[k].district = d
                  /\ \A m \in InputRows : records[m].district = d => k <= m
TotalOf(d, field) ==
    LET RECURSIVE Upto(_)
        Upto(k) == IF k = 0 THEN 0
                   ELSE Upto(k - 1) +
                        (IF k \in InputRows /\ records[k].district = d
                         THEN records[k][field] ELSE 0)
    IN  Upto(Len(records))

\* C6: the leaderboard of N distinct districts of the latest year has
\* exactly N entries, one per district, the entry at position i (from 1)
\* has rank i, and the ranks are exactly 1..N.
C6_RanksAreOneToN ==
    IsLeaderboard =>
        /\ Len(Board) = Cardinality(InputDistricts)
        /\ {Board[i].district : i \in Positions} = InputDistricts
        /\ \A i \in Positions : Board[i].rank = i
        /\ {Board[i].rank : i \in Positions} = 1..Cardinality(InputDistricts)

\* three districts, two of them with the same score
C6_Witness ==
    /\ IsLeaderboard
    /\ Len(Board) = 3
    /\ Board[1].score = Board[2].score
    /\ Board[3].rank = 3

\* C7: every score of a returned leaderboard lies in [0, 100].
C7_ScoreInRange ==
    response.op \in {"leaderboard", "top"} =>
        \A i \in Positions : Board[i].score >= 0 /\ Board[i].score <= 10000

\* a leaderboard with the top score 100.00 and a score that needed rounding
C7_Witness ==
    /\ IsLeaderboard
    /\ \E i \in Positions : Board[i].score = 10000
    /\ \E i \in Positions : Board[i].score % 100 # 0

HoldsBothMaxima(i) ==
    \A j \in Positions :
        /\ Board[j].metrics.totalPersonDays <= Board[i].metrics.totalPersonDays
        /\ Board[j].metrics.totalExpenditure <= Board[i].metrics.totalExpenditure

\* C8 (as stated): a district that holds both the maximum totalPersonDays
\* and the maximum totalExpenditure scores exactly 100.
C8_BothMaximaScore100 ==
    IsLeaderboard =>
        \A i \in Positions : HoldsBothMaxima(i) => Board[i].score = 10000

\* C8 (amended): a district that holds both the maximum totalPersonDays and
\* the maximum totalExpenditure scores exactly 100 provided both maxima are
\* at least 1.
C8_BothPositiveMaximaScore100 ==
    IsLeaderboard =>
        \A i \in Positions :
            (/\ HoldsBothMaxima(i)
             /\ Board[i].metrics.totalPersonDays >= 1
             /\ Board[i].metrics.totalExpenditure >= 1) => Board[i].score = 10000

\* one district leads on both metrics, aggregated over two of its rows,
\* ahead of a district with a lower, non-zero score
C8_Witness ==
    /\ IsLeaderboard
    /\ Len(Board) >= 2
    /\ HoldsBothMaxima(1)
    /\ Board[1].metrics.totalPersonDays = 2
    /\ Board[1].metrics.totalExpenditure >= 1
    /\ Board[2].score > 0
    /\ Board[2].score < 10000

\* C9: the leaderboard is in non-increasing order of score, and of two
\* districts with the same score the one whose first row comes earlier in
\* the input stands first.
C9_SortedAndStable ==
    IsLeaderboard =>
        \A i \in Positions : \A j \in Positions :
            i < j =>
                /\ Board[i].score >= Board[j].score
                /\ Board[i].score = Board[j].score =>
                       FirstRow(Board[i].district) < FirstRow(Board[j].district)

\* the district of the first input row is overtaken by two districts that
\* tie with each other
C9_Witness ==
    /\ IsLeaderboard
    /\ Len(Board) = 3
    /\ Board[1].score = Board[2].score
    /\ Board[2].score > Board[3].score
    /\ FirstRow(Board[3].district) < FirstRow(Board[1].district)

\* C10: getTopDistricts(n) returns the first min(max(n, 0), N) entries of the
\* full leaderboard of N entries.
C10_TopIsClampedPrefix ==
    response.op = "top" =>
        LET full == getMaharashtraLeaderboard(records).leaderboard
        IN  response.data = SubSeq(full, 1, Min(Max(response.arg, 0), Len(full)))

(***************************************************************************)
(* Queries on the leaderboard                                              *)
(***************************************************************************)
\* String.prototype.toLowerCase on the strings that occur as district and
\* category names; the Marathi labels have no letter case
toLowerCase(s) ==
    CASE s \in {"PUNE", "Pune", "pune"} -> "pune"
      [] s \in {"A", "a"} -> "a"
      [] s \in {"B", "b"} -> "b"
      [] s \in {"NASHIK", "Nashik", "nashik"} -> "nashik"
      [] s \in {"Unknown District"} -> "unknown district"
      [] s \in {"Excellent", "EXCELLENT", "excellent"} -> "excellent"
      [] s \in {"Good", "good"} -> "good"
      [] s \in {"Average", "AVERAGE"} -> "average"
      [] s \in {"NeedsImprovement"} -> "needsimprovement"
      [] s \in {"Needs Improvement"} -> "needs improvement"
      [] OTHER -> s

\* leaderboardService.getLeaderboard()
getLeaderboard(recs) ==
    LET result == getMaharashtraLeaderboard(recs)
    IN  IF result.success THEN result.leaderboard ELSE <<>>

\* leaderboard.find(...) || null: the result is a sequence holding the entry
\* found, and the empty sequence stands for null
getDistrictRank_CaseSensitive(recs, districtName) ==
    LET leaderboardData == getMaharashtraLeaderboard(recs)
        found == SelectSeq(leaderboardData.leaderboard,
                           LAMBDA d : d.district = districtName)
    IN  IF ~leaderboardData.success THEN <<>>
        ELSE IF found = <<>> THEN <<>>
        ELSE <<found[1]>>

getDistrictRank(recs, districtName) ==
    LET leaderboardData == getMaharashtraLeaderboard(recs)
        found == SelectSeq(leaderboardData.leaderboard,
                           LAMBDA d : toLowerCase(d.district) = toLowerCase(districtName))
    IN  IF ~leaderboardData.success THEN <<>>
        ELSE IF found = <<>> THEN <<>>
        ELSE <<found[1]>>

getDistrictsByCategory(recs, category) ==
    LET leaderboardData == getMaharashtraLeaderboard(recs)
    IN  IF ~leaderboardData.success THEN <<>>
        ELSE SelectSeq(leaderboardData.leaderboard,
                       LAMBDA d : toLowerCase(d.category) = toLowerCase(category))

\* the rows of the two-district scenario and rows of every category
ScenarioDocuments ==
    {Document("A", 2024, 100000, 0),
     Document("B", 2024, 50000, 100000000),
     Document("PUNE", 2024, 100000, 100000000),
     Document("Pune", 2024, 50000, 25000000),
     Document("B", 2024, 100000, 50000000),
     Document("PUNE", 2023, 50000, 0)}

DistrictNames == {"pune", "Pune", "a", "Unknown District"}
CategoryNames ==
    {"Excellent", "excellent", "Good", "AVERAGE", "NeedsImprovement", "utkrusht"}
QueryLimits == {2, 10}

QueryInit ==
    /\ records = <<>>
    /\ response = [op |-> "none", arg |-> 0, success |-> FALSE, data |-> <<>>]
    /\ API_KEY = [p \in ProviderSet |-> undefined]
    /\ pc = "idle"
    /\ coordinates = <<>>
    /\ errors = <<>>
    /\ requests = <<>>
    /\ produced = [p \in ProviderSet |-> NotCalled]
    /\ outcome = Pending
    /\ call = NoCall
    /\ apiKey = undefined
    /\ cacheMetadata = <<>>
    /\ now = 0
    /\ apiCalls = {}

\* leaderboardService.getLeaderboard()
GetLeaderboard ==
    /\ response = NoResponse
    /\ response' = [op |-> "getLeaderboard", arg |-> 0, success |-> TRUE,
                    data |-> getLeaderboard(records)]
    /\ UNCHANGED <<records>>
    /\ UNCHANGED <<geoVars, call, jobVars>>

\* maharashtraLeaderboard.getDistrictRank(districtName)
GetDistrictRank(districtName) ==
    /\ response = NoResponse
    /\ response' = [op |-> "rank", arg |-> 0, name |-> districtName, success |-> TRUE,
                    data |-> getDistrictRank(records, districtName)]
    /\ UNCHANGED <<records>>
    /\ UNCHANGED <<geoVars, call, jobVars>>

\* GET /api/maharashtra/district-rank/:district
DistrictRankRoute(districtName) ==
    /\ response = NoResponse
    /\ LET districtData == getDistrictRank(records, districtName)
       IN  response' =
               IF districtData = <<>>
               THEN [op |-> "district-rank", arg |-> 0, name |-> districtName,
                     success |-> FALSE, data |-> <<>>,
                     status |-> 404, error |-> "District not found"]
               ELSE [op |-> "district-rank", arg |-> 0, name |-> districtName,
                     success |-> TRUE, data |-> districtData,
                     status |-> 200, error |-> null]
    /\ UNCHANGED <<records>>
    /\ UNCHANGED <<geoVars, call, jobVars>>

\* maharashtraLeaderboard.getDistrictsByCategory(category)
GetDistrictsByCategory(category) ==
    /\ response = NoResponse
    /\ response' = [op |-> "category", arg |-> 0, name |-> category, success |-> TRUE,
                    data |-> getDistrictsByCategory(records, category)]
    /\ UNCHANGED <<records>>
    /\ UNCHANGED <<geoVars, call, jobVars>>

QueryNext ==
    \/ \E doc \in ScenarioDocuments : StoreDocument(doc)
    \/ GetMaharashtraLeaderboard
    \/ GetLeaderboard
    \/ \E limit \in QueryLimits : GetTopDistricts(limit)
    \/ \E districtName \in DistrictNames : GetDistrictRank(districtName)
    \/ \E districtName \in DistrictNames : DistrictRankRoute(districtName)
    \/ \E category \in CategoryNames : GetDistrictsByCategory(category)
    \/ Respond

SpecQuery == QueryInit /\ [][QueryNext]_vars

\* the full leaderboard of the stored records
FullLeaderboard == getMaharashtraLeaderboard(records).leaderboard

\* the category name the score thresholds give an entry
ThresholdCategory(score) ==
    IF score >= 8000 THEN "excellent"
    ELSE IF score >= 6000 THEN "good"
    ELSE IF score >= 4000 THEN "average"
    ELSE "needsimprovement"

\* C11: for a category name among Excellent, Good, Average, NeedsImprovement
\* in any letter case, getDistrictsByCategory returns exactly the leaderboard
\* entries the score thresholds put into that category.
C11_CategoryByThreshold ==
    (response.op = "category" /\
     toLowerCase(response.name) \in {"excellent", "good", "average", "needsimprovement"}) =>
        response.data =
            SelectSeq(FullLeaderboard,
                      LAMBDA d : ThresholdCategory(d.score) = toLowerCase(response.name))

\* positions of the full leaderboard whose district equals the name asked
\* for, ignoring letter case
Matching(districtName) ==
    {i \in 1..Len(FullLeaderboard) :
        toLowerCase(FullLeaderboard[i].district) = toLowerCase(districtName)}

\* C12: getDistrictRank returns the leaderboard entry whose district equals
\* the name ignoring letter case when there is one, and null otherwise; the
\* route answers the not-found case with 404 'District not found'.
C12_RankOrNotFound ==
    /\ response.op = "rank" =>
          IF Matching(response.name) = {} THEN response.data = <<>>
          ELSE \E i \in Matching(response.name) : response.data = <<FullLeaderboard[i]>>
    /\ response.op = "district-rank" =>
          IF Matching(response.name) = {}
          THEN response.status = 404 /\ response.error = "District not found"
               /\ ~response.success
          ELSE response.status = 200 /\ response.success
               /\ \E i \in Matching(response.name) : response.data = <<FullLeaderboard[i]>>

C12_Witness ==
    /\ response.op = "district-rank"
    /\ response.name = "pune"
    /\ response.status = 200
    /\ response.data[1].district = "PUNE"
    /\ Len(FullLeaderboard) >= 2

C12_WitnessNotFound ==
    /\ response.op = "district-rank"
    /\ response.status = 404
    /\ Len(FullLeaderboard) >= 1

\* C13: with no records the leaderboard is empty, and getTopDistricts and
\* getDistrictsByCategory return empty lists.
C13_EmptyInputEmptyLists ==
    records = <<>> =>
        /\ response.op \in {"leaderboard", "getLeaderboard", "top", "category"} =>
              response.data = <<>>
        /\ response.op = "leaderboard" => ~response.success

C13_Witness ==
    /\ records = <<>>
    /\ response.op = "category"
    /\ response.data = <<>>

\* the latest rows are one row of A and one row of B, in either order
TwoDistrictInput ==
    LET rows == LatestRows(records)
    IN  /\ records # <<>>
        /\ Len(rows) = 2
        /\ {rows[1], rows[2]} = {Document("A", 2024, 100000, 0),
                                 Document("B", 2024, 50000, 100000000)}

\* C17: for A (100000 person-days, 0 expenditure) and B (50000, 100000000)
\* the leaderboard is [B rank 1 score 70.00, A rank 2 score 60.00] and both
\* entries have category "Good".
C17_TwoDistrictScenario ==
    (IsLeaderboard /\ records # <<>> /\ TwoDistrictInput) =>
        /\ Len(Board) = 2
        /\ Board[1].district = "B" /\ Board[1].rank = 1 /\ Board[1].score = 7000
        /\ Board[2].district = "A" /\ Board[2].rank = 2 /\ Board[2].score = 6000
        /\ Board[1].category = "Good" /\ Board[2].category = "Good"


(***************************************************************************)
(* Aggregation of the rows of a district                                   *)
(***************************************************************************)
\* rows with every aggregated field, rows reporting zeros, and rows that
\* lack the aggregated fields altogether
FullRow(d, y) ==
    [district |-> d, year |-> y,
     total_persondays_generated |-> 1, total_expenditure |-> 1,
     total_households_worked |-> 2, total_completed_works |-> 1,
     total_ongoing_works |-> 1, average_wage_per_day |-> 200]

OtherRow(d, y) ==
    [district |-> d, year |-> y,
     total_persondays_generated |-> 2, total_expenditure |-> 0,
     total_households_worked |-> 1, total_completed_works |-> 2,
     total_ongoing_works |-> 0, average_wage_per_day |-> 301]

ZeroWageRow(d, y) ==
    [district |-> d, year |-> y,
     total_persondays_generated |-> 0, total_expenditure |-> 2,
     total_households_worked |-> 3, total_completed_works |-> 0,
     total_ongoing_works |-> 1, average_wage_per_day |-> 0]

BareRow(d, y) == [district |-> d, year |-> y]

AggregateDocuments ==
    {FullRow(d, 2024) : d \in {"PUNE", "NASHIK"}}
    \cup {OtherRow(d, 2024) : d \in {"PUNE", "NASHIK"}}
    \cup {ZeroWageRow(d, 2024) : d \in {"PUNE", "NASHIK"}}
    \cup {BareRow(d, 2024) : d \in {"PUNE", "NASHIK"}}
    \cup {OtherRow("PUNE", 2023)}

AggregateInit ==
    /\ records = <<>>
    /\ response = [op |-> "none", arg |-> 0, success |-> FALSE, data |-> <<>>]
    /\ API_KEY = [p \in ProviderSet |-> undefined]
    /\ pc = "idle"
    /\ coordinates = <<>>
    /\ errors = <<>>
    /\ requests = <<>>
    /\ produced = [p \in ProviderSet |-> NotCalled]
    /\ outcome = Pending
    /\ call = NoCall
    /\ apiKey = undefined
    /\ cacheMetadata = <<>>
    /\ now = 0
    /\ apiCalls = {}

AggregateNext ==
    \/ \E doc \in AggregateDocuments : StoreDocument(doc)
    \/ GetMaharashtraLeaderboard
    \/ Respond

SpecAggregate == AggregateInit /\ [][AggregateNext]_vars

\* the latest-year rows of district d, as positions of the collection
RowsOf(d) == {k \in InputRows : records[k].district = d}

\* the value a row reports for a field, 0 when the row lacks the field
Reported(k, field) ==
    IF field \in DOMAIN records[k] THEN records[k][field] ELSE 0

\* sum of a field over the latest-year rows of district d
SumOver(d, field) ==
    LET RECURSIVE Upto(_)
        Upto(k) == IF k = 0 THEN 0
                   ELSE Upto(k - 1) + (IF k \in RowsOf(d) THEN Reported(k, field) ELSE 0)
    IN  Upto(Len(records))

\* largest value of a field over the latest-year rows of district d
MaxOver(d, field) ==
    CHOOSE m \in {Reported(k, field) : k \in RowsOf(d)} :
        \A k \in RowsOf(d) : Reported(k, field) <= m

\* C22: per district, totalPersonDays, totalExpenditure, worksCompleted and
\* worksInProgress are the sums over the district's rows (a missing field
\* counts as zero) and householdsWorked is the maximum over the rows.
C22_SumsAndMaximum ==
    IsLeaderboard =>
        \A i \in Positions :
            LET d == Board[i].district
                m == Board[i].metrics
            IN  /\ m.totalPersonDays = SumOver(d, "total_persondays_generated")
                /\ m.totalExpenditure = SumOver(d, "total_expenditure")
                /\ m.worksCompleted = SumOver(d, "total_completed_works")
                /\ m.worksInProgress = SumOver(d, "total_ongoing_works")
                /\ m.householdsWorked = MaxOver(d, "total_households_worked")

C22_Witness ==
    /\ IsLeaderboard
    /\ \E i \in Positions :
          /\ Cardinality(RowsOf(Board[i].district)) = 3
          /\ \E k \in RowsOf(Board[i].district) :
                "total_households_worked" \notin DOMAIN records[k]
          /\ Board[i].metrics.householdsWorked = 2
          /\ Board[i].metrics.worksCompleted = 3

\* the latest-year rows of district d that report a non-zero wage rate
WageRows(d) == {k \in RowsOf(d) : Reported(k, "average_wage_per_day") # 0}

\* C23: avgWageRate is the average over the rows with a non-zero wage rate
\* only, and 0 for a district without such rows.
C23_AverageOverWageRows ==
    IsLeaderboard =>
        \A i \in Positions :
            LET d == Board[i].district
            IN  Board[i].metrics.avgWageRate =
                    IF WageRows(d) = {} THEN 0
                    ELSE MathRound(SumOver(d, "average_wage_per_day"),
                                   Cardinality(WageRows(d)))

\* the label an entry carries for the category of the thresholds
LabelOf(categoryName) ==
    CASE categoryName = "Excellent" -> "utkrusht"
      [] categoryName = "Good" -> "changle"
      [] categoryName = "Average" -> "sarasari"
      [] categoryName = "NeedsImprovement" -> "sudharana avashyak"

\* C21: the category of every entry follows from its score alone: 80 and
\* above Excellent, else 60 and above Good, else 40 and above Average, else
\* NeedsImprovement; 80, 60 and 40 belong to the higher category.
C21_CategoryFromThresholds ==
    IsLeaderboard =>
        \A i \in Positions :
            Board[i].category =
                LabelOf(IF Board[i].score >= 8000 THEN "Excellent"
                        ELSE IF Board[i].score >= 6000 THEN "Good"
                        ELSE IF Board[i].score >= 4000 THEN "Average"
                        ELSE "NeedsImprovement")

C21_Witness ==
    /\ IsLeaderboard
    /\ \E i, j \in Positions :
          /\ Board[i].score = 8000 /\ Board[i].category = "utkrusht"
          /\ Board[j].score = 6000 /\ Board[j].category = "changle"

(***************************************************************************)
(* The CSV import and the ranking service                                  *)
(***************************************************************************)
MaxCsvRows == 2

\* rec.district_name.toString().trim().toUpperCase() on the names that occur
TrimUpperCase(s) ==
    CASE s \in {"Pune", " pune ", "PUNE"} -> "PUNE"
      [] s \in {"nashik", "Nashik", "NASHIK"} -> "NASHIK"
      [] s \in {"", "  "} -> ""
      [] OTHER -> s

\* parseInt(finYear.split('-')[0])
FinYearStart(finYear) ==
    CASE finYear = "2024-2025" -> 2024
      [] finYear = "2023-2024" -> 2023

\* a row of maharashtra1.csv; the numeric cells are given by their value
CsvRow(name, finYear, month, individuals, avgDays, exp) ==
    [district_name |-> name, fin_year |-> finYear, month |-> month,
     Total_Individuals_Worked |-> individuals,
     Average_days_of_employment_provided_per_Household |-> avgDays,
     Total_Exp |-> exp]

CsvRows ==
    {CsvRow("Pune", "2024-2025", "Jan", 10, 2, 500),
     CsvRow(" pune ", "2024-2025", "Jan", 7, 1, 100),
     CsvRow("Pune", "2024-2025", "Feb", 5, 2, 0),
     CsvRow("nashik", "2024-2025", "Jan", 20, 1, 300),
     CsvRow("nashik", "2023-2024", "Jan", 30, 1, 0),
     CsvRow("  ", "2024-2025", "Jan", 9, 9, 900)}

RECURSIVE CsvFiles(_)
CsvFiles(n) ==
    IF n = 0 THEN {<<>>}
    ELSE CsvFiles(n - 1) \cup
         {Append(f, r) : f \in {g \in CsvFiles(n - 1) : Len(g) = n - 1}, r \in CsvRows}

\* the document importData builds from one CSV row
ImportedDocument(rec) ==
    [district |-> TrimUpperCase(rec.district_name),
     year |-> FinYearStart(rec.fin_year),
     month |-> rec.month,
     financialYear |-> rec.fin_year,
     metrics |-> [totalPersonDays |->
                      rec.Total_Individuals_Worked *
                      rec.Average_days_of_employment_provided_per_Household,
                  totalExpenditure |-> rec.Total_Exp,
                  employmentProvided |-> rec.Total_Individuals_Worked,
                  householdsWorked |-> 0]]

\* the loop over the CSV rows: rows without a district are skipped and the
\* first row of each district / year / month is kept
RECURSIVE ImportBatch(_)
ImportBatch(csv) ==
    IF csv = <<>> THEN <<>>
    ELSE LET before == ImportBatch(SubSeq(csv, 1, Len(csv) - 1))
             doc == ImportedDocument(csv[Len(csv)])
         IN  IF doc.district = "" THEN before
             ELSE IF \E i \in 1..Len(before) :
                        /\ before[i].district = doc.district
                        /\ before[i].year = doc.year
                        /\ before[i].month = doc.month
             THEN before
             ELSE Append(before, doc)

\* documents that carry the same amounts at the root and under metrics
BothDocument(d, pd, ex) ==
    [district |-> d, year |-> 2024,
     total_persondays_generated |-> pd, total_expenditure |-> ex,
     metrics |-> [totalPersonDays |-> pd, totalExpenditure |-> ex,
                  employmentProvided |-> 0, householdsWorked |-> 0]]

BothDocuments ==
    {BothDocument("A", 10, 0), BothDocument("B", 5, 1000), BothDocument("PUNE", 1, 1)}

\* $sum of a metrics field over the rows of a group; a missing field adds 0
MetricSum(rows, field) ==
    Sum([i \in 1..Len(rows) |->
            IF "metrics" \in DOMAIN rows[i] /\ field \in DOMAIN rows[i].metrics
            THEN rows[i].metrics[field] ELSE 0])

\* performanceScore of the $addFields stage, in ten-thousandths:
\* 0.4 * personDays + 0.0001 * expenditure + 0.3 * employment + 0.3 * households
PerformanceScore(rows, d) ==
    LET own == SelectSeq(rows, LAMBDA r : r.district = d)
    IN  4000 * MetricSum(own, "totalPersonDays")
        + MetricSum(own, "totalExpenditure")
        + 3000 * MetricSum(own, "employmentProvided")
        + 3000 * MetricSum(own, "householdsWorked")

\* the outputs the $group / $sort pipeline can give: every order of the
\* districts with non-increasing performanceScore
DistrictPerformances(rows) ==
    LET ids == {rows[i].district : i \in 1..Len(rows)}
        n == Cardinality(ids)
    IN  {order \in [1..n -> ids] :
            /\ \A i, j \in 1..n : i # j => order[i] # order[j]
            /\ \A i \in 1..(n - 1) :
                  PerformanceScore(rows, order[i]) >= PerformanceScore(rows, order[i + 1])}

\* RankingService.getDistrictRank(state, district) for one pipeline output;
\* rank null is the empty sequence
RankData(recs, districtPerformance, district) ==
    IF recs = <<>>
    THEN [error |-> "No data found for this state", rank |-> <<>>, totalDistricts |-> 0]
    ELSE LET found == {i \in 1..Len(districtPerformance) :
                          toLowerCase(districtPerformance[i]) = toLowerCase(district)}
         IN  IF found = {}
             THEN [error |-> "District not found in rankings", rank |-> <<>>,
                   totalDistricts |-> Len(districtPerformance)]
             ELSE [error |-> null,
                   rank |-> <<CHOOSE i \in found : \A j \in found : i <= j>>,
                   totalDistricts |-> Len(districtPerformance)]

ImportInit ==
    /\ records = <<>>
    /\ response = [op |-> "none", arg |-> 0, success |-> FALSE, data |-> <<>>]
    /\ API_KEY = [p \in ProviderSet |-> undefined]
    /\ pc = "idle"
    /\ coordinates = <<>>
    /\ errors = <<>>
    /\ requests = <<>>
    /\ produced = [p \in ProviderSet |-> NotCalled]
    /\ outcome = Pending
    /\ call = NoCall
    /\ apiKey = undefined
    /\ cacheMetadata = <<>>
    /\ now = 0
    /\ apiCalls = {}

\* importData(): deleteMany({}) and insertMany(batch)
ImportData(csv) ==
    /\ response = NoResponse
    /\ records' = ImportBatch(csv)
    /\ response' = NoResponse
    /\ UNCHANGED <<geoVars, call, jobVars>>

\* GET /api/rank?state=&district=
RankRoute(state, district) ==
    /\ response = NoResponse
    /\ IF state = "" \/ district = ""
       THEN response' = [op |-> "api-rank", arg |-> 0, name |-> district,
                         success |-> FALSE, status |-> 400,
                         data |-> [error |-> "State and district parameters are required",
                                   rank |-> <<>>, totalDistricts |-> 0]]
       ELSE \E districtPerformance \in DistrictPerformances(LatestRows(records)) :
               response' = [op |-> "api-rank", arg |-> 0, name |-> district,
                            success |-> TRUE, status |-> 200,
                            data |-> RankData(records, districtPerformance, district)]
    /\ UNCHANGED <<records>>
    /\ UNCHANGED <<geoVars, call, jobVars>>

RankStates == {"Maharashtra", ""}
RankDistricts == {"pune", "Nashik", "a", "B"}

ImportNext ==
    \/ \E csv \in CsvFiles(MaxCsvRows) : ImportData(csv)
    \/ \E doc \in BothDocuments : StoreDocument(doc)
    \/ GetMaharashtraLeaderboard
    \/ \E districtName \in RankDistricts : GetDistrictRank(districtName)
    \/ \E state \in RankStates, district \in RankDistricts : RankRoute(state, district)
    \/ Respond

SpecImport == ImportInit /\ [][ImportNext]_vars

\* C24: the rank GET /api/rank reports for a district equals the rank
\* maharashtraLeaderboard.getDistrictRank reports, which is the district's
\* position in the leaderboard.
C24_OneRankComputation ==
    /\ (response.op = "api-rank" /\ response.status = 200
        /\ Matching(response.name) # {}) =>
          \E i \in Matching(response.name) :
              response.data.rank = <<FullLeaderboard[i].rank>>
    /\ (response.op = "rank" /\ response.data # <<>>) =>
          \E i \in Matching(response.name) :
              /\ response.data[1].rank = i
              /\ response.data[1] = FullLeaderboard[i]

\* person-days and expenditure importData wrote for the latest-year rows of d
ImportedSum(d, field) ==
    LET RECURSIVE Upto(_)
        Upto(k) == IF k = 0 THEN 0
                   ELSE Upto(k - 1) +
                        (IF k \in RowsOf(d) THEN records[k].metrics[field] ELSE 0)
    IN  Upto(Len(records))

\* C29: for imported records the leaderboard's totalPersonDays and
\* totalExpenditure of a district are the sums of the imported amounts of
\* the latest year, and positive person-days give a positive score.
C29_ImportedTotalsReachLeaderboard ==
    IsLeaderboard =>
        \A i \in Positions :
            LET d == Board[i].district
            IN  /\ Board[i].metrics.totalPersonDays = ImportedSum(d, "totalPersonDays")
                /\ Board[i].metrics.totalExpenditure = ImportedSum(d, "totalExpenditure")
                /\ ImportedSum(d, "totalPersonDays") > 0 => Board[i].score > 0

(***************************************************************************)
(* POST /api/geolocation                                                   *)
(***************************************************************************)
\* req.body: a coordinate the client did not send is a missing field
Bodies ==
    {[latitude |-> 19, longitude |-> 73],
     [latitude |-> 90, longitude |-> 0 - 180],
     [latitude |-> 0, longitude |-> 73],
     [latitude |-> 19, longitude |-> 0],
     [latitude |-> 91, longitude |-> 73],
     [latitude |-> 19, longitude |-> 0 - 181],
     [longitude |-> 73],
     [latitude |-> 19]}

\* `!value` for a number or undefined
Falsy(body, field) == field \notin DOMAIN body \/ body[field] = 0

\* the reply of the catch block, whatever was thrown
GeolocationFailed(error) ==
    [op |-> "geolocation", arg |-> 0, success |-> FALSE, status |-> 500,
     error |-> "Geolocation failed", message |-> error.message, data |-> <<>>]

BadRequest(error, message) ==
    [op |-> "geolocation", arg |-> 0, success |-> FALSE, status |-> 400,
     error |-> error, message |-> message, data |-> <<>>]

\* the handler waits for getLiveDistrict
Awaiting ==
    [op |-> "geolocation", arg |-> 0, success |-> FALSE, status |-> 0,
     error |-> null, message |-> null, data |-> <<>>]

RouteInit ==
    /\ API_KEY \in [ProviderSet -> {undefined, "live-key"}]
    /\ pc = "idle"
    /\ coordinates = <<>>
    /\ errors = <<>>
    /\ requests = <<>>
    /\ produced = [p \in ProviderSet |-> NotCalled]
    /\ outcome = Pending
    /\ records = <<>>
    /\ response = [op |-> "none", arg |-> 0, success |-> FALSE, data |-> <<>>]
    /\ call = NoCall
    /\ apiKey = undefined
    /\ cacheMetadata = <<>>
    /\ now = 0
    /\ apiCalls = {}

\* the handler up to `await getLiveDistrict(latitude, longitude)`
PostGeolocation(body) ==
    /\ response = NoResponse
    /\ pc \in {"idle", "returned", "threw"}
    /\ IF Falsy(body, "latitude") \/ Falsy(body, "longitude")
       THEN /\ response' = BadRequest("Missing coordinates",
                                      "Both latitude and longitude are required")
            /\ UNCHANGED <<pc, coordinates, errors, requests, produced, outcome>>
       ELSE IF body.latitude < 0 - 90 \/ body.latitude > 90
       THEN /\ response' = BadRequest("Invalid latitude",
                                      "Latitude must be between -90 and 90")
            /\ UNCHANGED <<pc, coordinates, errors, requests, produced, outcome>>
       ELSE IF body.longitude < 0 - 180 \/ body.longitude > 180
       THEN /\ response' = BadRequest("Invalid longitude",
                                      "Longitude must be between -180 and 180")
            /\ UNCHANGED <<pc, coordinates, errors, requests, produced, outcome>>
       ELSE /\ response' = Awaiting
            /\ pc' = "Google"
            /\ coordinates' = <<body.latitude, body.longitude>>
            /\ errors' = <<>>
            /\ requests' = <<>>
            /\ produced' = [p \in ProviderSet |-> NotCalled]
            /\ outcome' = Pending
    /\ call' = [fn |-> "POST /geolocation", arg |-> body, result |-> NullStr,
                applications |-> 1]
    /\ UNCHANGED <<API_KEY, records, jobVars>>

\* the handler after getLiveDistrict has returned or thrown
GeolocationReply ==
    /\ response = Awaiting
    /\ outcome.kind # "pending"
    /\ response' =
          IF outcome.kind = "throw" THEN GeolocationFailed(outcome)
          ELSE [op |-> "geolocation", arg |-> 0, success |-> TRUE, status |-> 200,
                error |-> null, message |-> null,
                data |-> <<[state |-> outcome.value.state,
                            district |-> outcome.value.district,
                            source |-> outcome.value.source,
                            warning |-> IF outcome.value.state = "Maharashtra"
                                        THEN null
                                        ELSE "Location is outside Maharashtra. Only Maharashtra districts are supported."]>>]
    /\ UNCHANGED <<geoVars, records, call, jobVars>>

\* the reply has gone out
GeolocationSent ==
    /\ response.op = "geolocation"
    /\ response.status # 0
    /\ response' = NoResponse
    /\ call' = NoCall
    /\ UNCHANGED <<geoVars, records, jobVars>>

RouteNext ==
    \/ \E body \in Bodies : PostGeolocation(body)
    \/ TryGoogle
    \/ TryMapMyIndia
    \/ TryGeoapify
    \/ TryLocationIQ
    \/ AllApisFailed
    \/ GeolocationReply
    \/ GeolocationSent

SpecRoute == RouteInit /\ [][RouteNext]_vars

\* the request the handler is answering
Body == call.arg
IsGeolocationReply == response.op = "geolocation" /\ response.status # 0

\* C25: when every provider is exhausted the reply differs, in status or in
\* error code, from the reply the handler gives for any other fault.
C25_ExhaustionDistinguishable ==
    (IsGeolocationReply /\ outcome = Error(ALL_FAILED) /\ response.status # 400) =>
        <<response.status, response.error>> #
            <<GeolocationFailed(Error("Internal Server Error")).status,
              GeolocationFailed(Error("Internal Server Error")).error>>

\* both coordinates are present and within range
InRange(body) ==
    /\ "latitude" \in DOMAIN body
    /\ "longitude" \in DOMAIN body
    /\ body.latitude >= 0 - 90 /\ body.latitude <= 90
    /\ body.longitude >= 0 - 180 /\ body.longitude <= 180

\* C27: every coordinate in range, latitude 0 and longitude 0 included, is
\* forwarded to getLiveDistrict; 400 is answered only for a missing or an
\* out-of-range coordinate.
C27_InRangeForwarded ==
    /\ IsGeolocationReply => (response.status = 400 <=> ~InRange(Body))
    /\ (response.op = "geolocation" /\ InRange(Body)) =>
          coordinates = <<Body.latitude, Body.longitude>>

(***************************************************************************)
(* Live data: fetchLiveData, POST /refresh and the periodic refresh job    *)
(***************************************************************************)
MaxHours == 18

REFRESH_LIMIT == 20
CRON_PERIOD == 6
STALE_AFTER == 12

\* String.prototype.toUpperCase on district names
toUpperCase(s) ==
    CASE s \in {"Pune", "pune", "PUNE"} -> "PUNE"
      [] s \in {"Nashik", "nashik", "NASHIK"} -> "NASHIK"
      [] OTHER -> s

JobDistricts == {"Pune", "Nashik"}

\* answers of api.data.gov.in: records found, or none / a failed request
ApiReplies == {[ok |-> TRUE], [ok |-> FALSE]}

\* findOneAndUpdate(query, update, {upsert: true}), matching being the
\* positions of the documents the query matches: the first of them is
\* replaced, otherwise the document is inserted
Upsert(collection, matching, doc) ==
    IF matching # {}
    THEN [collection EXCEPT ![CHOOSE k \in matching : \A m \in matching : k <= m] = doc]
    ELSE Append(collection, doc)

\* fetchFromMongoDB: findOne({district: NAME, state: 'Maharashtra'})
\* .sort({lastUpdated: -1}); null is the empty sequence
fetchFromMongoDB(recs, districtName) ==
    LET IsMatch(doc) == /\ "district" \in DOMAIN doc
                        /\ "state" \in DOMAIN doc
                        /\ doc.district = toUpperCase(districtName)
                        /\ doc.state = "Maharashtra"
        found == SelectSeq(recs, IsMatch)
    IN  IF found = <<>> THEN <<>>
        ELSE <<found[CHOOSE i \in 1..Len(found) :
                        \A j \in 1..Len(found) : found[j].lastUpdated <= found[i].lastUpdated]>>

\* syncToMongoDB
syncToMongoDB(recs, districtName, stateName, time) ==
    LET IsSynced(doc) == /\ "district_name" \in DOMAIN doc
                         /\ doc.district_name = toUpperCase(districtName)
                         /\ doc.state_name = stateName
    IN  Upsert(recs, {i \in 1..Len(recs) : IsSynced(recs[i])},
               [state_name |-> stateName, district_name |-> toUpperCase(districtName),
                lastUpdated |-> time, source |-> "data.gov.in"])

NoDataAvailable == "No data available"

\* LiveAPIService.fetchLiveData: the result (or the error thrown), the
\* collection afterwards, and whether data.gov.in delivered data
fetchLiveData(recs, key, districtName, stateName, reply, time) ==
    LET mongoData == fetchFromMongoDB(recs, districtName)
    IN  IF mongoData # <<>>
        THEN [result |-> [success |-> TRUE, source |-> "MongoDB", fresh |-> FALSE,
                          data |-> mongoData, error |-> null],
              records |-> recs, fetched |-> FALSE]
        ELSE IF key = undefined
        THEN [result |-> [success |-> FALSE, source |-> null, fresh |-> FALSE,
                          data |-> <<>>, error |-> NoDataAvailable],
              records |-> recs, fetched |-> FALSE]
        ELSE IF reply.ok
        THEN [result |-> [success |-> TRUE, source |-> "API", fresh |-> TRUE,
                          data |-> <<>>, error |-> null],
              records |-> syncToMongoDB(recs, districtName, stateName, time),
              fetched |-> TRUE]
        ELSE [result |-> [success |-> FALSE, source |-> null, fresh |-> FALSE,
                          data |-> <<>>, error |-> NoDataAvailable],
              records |-> recs, fetched |-> FALSE]

\* CacheMetadata.find({lastUpdated: {$lt: twelveHoursAgo}}).limit(20); a
\* document without the field lastUpdated does not match
DistrictsToRefresh(metadata, time) ==
    LET found == SelectSeq(metadata,
                           LAMBDA meta : /\ "lastUpdated" \in DOMAIN meta
                                         /\ meta.lastUpdated < time - STALE_AFTER)
    IN  SubSeq(found, 1, Min(Len(found), REFRESH_LIMIT))

\* the for loop of the job over districtsToRefresh: the collection and the
\* districts fetched from the API afterwards
RECURSIVE RefreshLoop(_, _, _, _, _, _)
RefreshLoop(metas, recs, calls, key, replies, time) ==
    IF metas = <<>> THEN [records |-> recs, apiCalls |-> calls]
    ELSE LET meta == metas[1]
             step == fetchLiveData(recs, key, meta.district, meta.state,
                                   replies[meta.district], time)
         IN  RefreshLoop(Tail(metas), step.records,
                         IF step.fetched THEN calls \cup {toUpperCase(meta.district)}
                         ELSE calls,
                         key, replies, time)

RefreshInit ==
    /\ apiKey \in {undefined, "live-key"}
    /\ cacheMetadata = <<>>
    /\ now = 0
    /\ apiCalls = {}
    /\ records = <<>>
    /\ response = [op |-> "none", arg |-> 0, success |-> FALSE, data |-> <<>>]
    /\ API_KEY = [p \in ProviderSet |-> undefined]
    /\ pc = "idle"
    /\ coordinates = <<>>
    /\ errors = <<>>
    /\ requests = <<>>
    /\ produced = [p \in ProviderSet |-> NotCalled]
    /\ outcome = Pending
    /\ call = NoCall

\* time passes from one run of the job to the next
Tick ==
    /\ now + CRON_PERIOD <= MaxHours
    /\ now' = now + CRON_PERIOD
    /\ UNCHANGED <<geoVars, records, response, call, apiKey, cacheMetadata, apiCalls>>

\* POST /api/refresh {state: 'Maharashtra', district}: refreshDistrictData
\* with its updateCacheMetadata
RefreshDistrictData(district) ==
    /\ response = NoResponse
    /\ records' = Upsert(records,
                         {i \in 1..Len(records) :
                              /\ "district" \in DOMAIN records[i]
                              /\ records[i].district = district
                              /\ records[i].state = "Maharashtra"},
                         [state |-> "Maharashtra", district |-> district,
                          lastUpdated |-> now])
    /\ cacheMetadata' = Upsert(cacheMetadata,
                               {i \in 1..Len(cacheMetadata) :
                                    /\ "key" \in DOMAIN cacheMetadata[i]
                                    /\ cacheMetadata[i].key = district},
                               [key |-> district, lastFetched |-> now,
                                status |-> "success"])
    /\ UNCHANGED <<geoVars, response, call, apiKey, now, apiCalls>>

\* a CacheMetadata document of the shape the job reads (district, state,
\* lastUpdated) is written for a district
TrackDistrict(district) ==
    /\ response = NoResponse
    /\ ~\E i \in 1..Len(cacheMetadata) :
            "district" \in DOMAIN cacheMetadata[i] /\ cacheMetadata[i].district = district
    /\ cacheMetadata' = Append(cacheMetadata,
                               [district |-> district, state |-> "Maharashtra",
                                lastUpdated |-> now])
    /\ UNCHANGED <<geoVars, records, response, call, apiKey, now, apiCalls>>

\* GET /api/data/:state/:district
DataRoute(district, reply) ==
    /\ response = NoResponse
    /\ LET step == fetchLiveData(records, apiKey, district, "Maharashtra", reply, now)
       IN  /\ records' = step.records
           /\ apiCalls' = IF step.fetched THEN apiCalls \cup {toUpperCase(district)}
                          ELSE apiCalls
           /\ response' = [op |-> "fetchLiveData", arg |-> 0, name |-> district,
                           success |-> step.result.success,
                           status |-> IF step.result.success THEN 200 ELSE 404,
                           source |-> step.result.source,
                           fresh |-> step.result.fresh,
                           data |-> step.result.data]
    /\ UNCHANGED <<geoVars, call, apiKey, cacheMetadata, now>>

\* one run of the periodic refresh job
PeriodicRefresh(replies) ==
    /\ LET districtsToRefresh == DistrictsToRefresh(cacheMetadata, now)
           after == RefreshLoop(districtsToRefresh, records, apiCalls,
                                apiKey, replies, now)
       IN  /\ records' = after.records
           /\ apiCalls' = after.apiCalls
    /\ UNCHANGED <<geoVars, response, call, apiKey, cacheMetadata, now>>

\* a run of the job in which data.gov.in answers every request
PeriodicRefreshAnswered == PeriodicRefresh([d \in JobDistricts |-> [ok |-> TRUE]])

RefreshNext ==
    \/ Tick
    \/ \E district \in {toUpperCase(d) : d \in JobDistricts} : RefreshDistrictData(district)
    \/ \E district \in JobDistricts : TrackDistrict(district)
    \/ \E district \in JobDistricts, reply \in ApiReplies : DataRoute(district, reply)
    \/ \E replies \in [JobDistricts -> ApiReplies] : PeriodicRefresh(replies)
    \/ Respond

\* the job runs every six hours for ever, and data.gov.in answers
SpecRefresh ==
    /\ RefreshInit
    /\ [][RefreshNext]_vars
    /\ WF_vars(Tick)
    /\ WF_vars(PeriodicRefreshAnswered)

\* C26: every successful fetchLiveData result is fresh data from the
\* data.gov.in API (source 'API', fresh true), never stored MongoDB data.
C26_AlwaysLive ==
    (response.op = "fetchLiveData" /\ response.success) =>
        (response.source = "API" /\ response.fresh)

\* the cached data of a district is older than twelve hours
Stale(district) ==
    \E i \in 1..Len(cacheMetadata) :
        LET meta == cacheMetadata[i]
        IN  \/ /\ "district" \in DOMAIN meta
               /\ meta.district = district
               /\ meta.lastUpdated < now - STALE_AFTER
            \/ /\ "key" \in DOMAIN meta
               /\ meta.key = toUpperCase(district)
               /\ meta.lastFetched < now - STALE_AFTER

\* C30: under repeated runs of the job a district whose cached data is
\* older than twelve hours is eventually fetched from the API again, also
\* when a MongoDB record of the district exists.
C30_StaleEventuallyRefetched ==
    \A district \in JobDistricts :
        (apiKey # undefined /\ Stale(district) /\ toUpperCase(district) \notin apiCalls)
            ~> (toUpperCase(district) \in apiCalls)

(***************************************************************************)
(* Helper functions applied on their own                                   *)
(***************************************************************************)
MaxWords == 3

Words == {"PUNE", "ROHA", "DISTRICT", "TALUK", "TALUKA", "TEHSIL"}

RECURSIVE WordSeqs(_)
WordSeqs(n) ==
    IF n = 0 THEN {<<>>}
    ELSE WordSeqs(n - 1) \cup
         {Append(w, x) : w \in {v \in WordSeqs(n - 1) : Len(v) = n - 1}, x \in Words}

\* the non-null strings normalizeDistrictName is applied to
DistrictStrings ==
    {Str(pad, lower, w) : pad \in BOOLEAN, lower \in BOOLEAN, w \in WordSeqs(MaxWords)}
    \ {Str(FALSE, TRUE, <<>>), Str(TRUE, TRUE, <<>>)}

\* the `address` object of a LocationIQ answer; a missing field is null
Addresses ==
    [state : {null, "Maharashtra", "Karnataka"},
     state_district : {null, "Pune", "Karnataka"},
     region : {null, "West India"},
     city : {null, "Mumbai"},
     county : {null, "Haveli"},
     district : {null, "Thane"},
     city_district : {null, "Andheri"}]

\* address.state || address.state_district || address.region || null
LocationIQState(address) ==
    IF TruthyField(address.state) THEN address.state
    ELSE IF TruthyField(address.state_district) THEN address.state_district
    ELSE IF TruthyField(address.region) THEN address.region
    ELSE null

\* the if / else-if chain of reverseGeocodeLocationIQ
LocationIQDistrict(address) ==
    LET state == LocationIQState(address) IN
    IF TruthyField(address.state_district) /\ address.state_district # state
    THEN address.state_district
    ELSE IF TruthyField(address.city) /\ state = "Maharashtra" THEN address.city
    ELSE IF TruthyField(address.county) THEN address.county
    ELSE IF TruthyField(address.district) THEN address.district
    ELSE null

\* the if / else-if chain of the stand-alone LocationIQ service (reverseGeocode)
reverseGeocodeDistrict(address) ==
    LET state == LocationIQState(address) IN
    IF TruthyField(address.state_district) /\ address.state_district # state
    THEN address.state_district
    ELSE IF TruthyField(address.city) /\ state = "Maharashtra" THEN address.city
    ELSE IF TruthyField(address.county) THEN address.county
    ELSE IF TruthyField(address.district) THEN address.district
    ELSE IF TruthyField(address.city_district) THEN address.city_district
    ELSE null

HelperInit ==
    /\ call = NoCall
    /\ apiKey = undefined
    /\ cacheMetadata = <<>>
    /\ now = 0
    /\ apiCalls = {}
    /\ API_KEY = [p \in ProviderSet |-> undefined]
    /\ pc = "idle"
    /\ coordinates = <<>>
    /\ errors = <<>>
    /\ requests = <<>>
    /\ produced = [p \in ProviderSet |-> NotCalled]
    /\ outcome = Pending
    /\ records = <<>>
    /\ response = [op |-> "none", arg |-> 0, success |-> FALSE, data |-> <<>>]

\* normalizeDistrictName(district)
NormalizeDistrictName(district) ==
    /\ call = NoCall
    /\ call' = [fn |-> "normalizeDistrictName", arg |-> district,
                result |-> normalizeDistrictName(district), applications |-> 1]
    /\ UNCHANGED <<geoVars, records, response, jobVars>>

\* normalizeDistrictName applied to the result of the previous application
NormalizeAgain ==
    /\ call.fn = "normalizeDistrictName"
    /\ call.applications = 1
    /\ call' = [fn |-> "normalizeDistrictName", arg |-> call.result,
                result |-> normalizeDistrictName(call.result), applications |-> 2]
    /\ UNCHANGED <<geoVars, records, response, jobVars>>

\* the state / district extraction of reverseGeocodeLocationIQ
ExtractLocationIQ(address) ==
    /\ call = NoCall
    /\ call' = [fn |-> "reverseGeocodeLocationIQ", arg |-> address,
                result |-> [state |-> LocationIQState(address),
                            district |-> LocationIQDistrict(address)],
                applications |-> 1]
    /\ UNCHANGED <<geoVars, records, response, jobVars>>

\* the state / district extraction of the stand-alone reverseGeocode
ExtractReverseGeocode(address) ==
    /\ call = NoCall
    /\ call' = [fn |-> "reverseGeocode", arg |-> address,
                result |-> [state |-> LocationIQState(address),
                            district |-> reverseGeocodeDistrict(address)],
                applications |-> 1]
    /\ UNCHANGED <<geoVars, records, response, jobVars>>

\* ---- the client's reverseGeocode (utils/geolocation) ----
\* normalizeStateName of the client: lower-cased, trimmed, looked up in stateMap
ClientNormalizeStateName(stateName) ==
    CASE stateName = null -> null
      [] stateName \in {"Maharashtra", "maharashtra", "MH"} -> "Maharashtra"
      [] stateName \in {"Karnataka", "karnataka"} -> "Karnataka"
      [] OTHER -> stateName

\* normalizeDistrictName of the client: suffix removed, words capitalized
ClientNormalizeDistrictName(districtName) ==
    CASE districtName = null -> null
      [] districtName \in {"Pune", "PUNE", "Pune District"} -> "Pune"
      [] districtName \in {"Bengaluru Urban", "bengaluru urban"} -> "Bengaluru Urban"
      [] OTHER -> districtName

\* what POST /api/geolocation can answer
BackendReplies ==
    {[ok |-> FALSE, success |-> FALSE, message |-> m, state |-> null, district |-> null] :
        m \in {ALL_FAILED, "Both latitude and longitude are required"}}
    \cup {[ok |-> TRUE, success |-> TRUE, message |-> null, state |-> st, district |-> d] :
            st \in {null, "Maharashtra", "Karnataka"}, d \in {null, "PUNE", "Bengaluru Urban"}}

\* what nominatim.openstreetmap.org can answer
NominatimReplies ==
    {[ok |-> FALSE, state |-> null, county |-> null]}
    \cup {[ok |-> TRUE, state |-> st, county |-> c] :
            st \in {null, "Maharashtra", "karnataka", "Karnataka"},
            c \in {null, "Pune District", "Bengaluru Urban"}}

Resolve(state, district) ==
    [kind |-> "resolve", state |-> state, district |-> district, message |-> null]
Reject(message) ==
    [kind |-> "reject", state |-> null, district |-> null, message |-> message]

MAHARASHTRA_ONLY == "This dashboard currently supports Maharashtra only."

reverseGeocodeNominatim(reply) ==
    IF ~reply.ok THEN Reject("Unable to determine location from coordinates")
    ELSE Resolve(ClientNormalizeStateName(reply.state),
                 ClientNormalizeDistrictName(reply.county))

\* the try block of the client's reverseGeocode: the value it returns, or
\* the error it throws into its own catch block
TryBackend(reply) ==
    IF ~reply.ok THEN Reject(reply.message)
    ELSE IF ~reply.success THEN Reject(reply.message)
    ELSE IF reply.state # "Maharashtra" THEN Reject(MAHARASHTRA_ONLY)
    ELSE Resolve(reply.state, reply.district)

\* reverseGeocode(latitude, longitude): every error of the try block,
\* the Maharashtra-only one included, falls back to Nominatim
ClientReverseGeocode(backend, nominatim) ==
    IF TryBackend(backend).kind = "resolve" THEN TryBackend(backend)
    ELSE reverseGeocodeNominatim(nominatim)

\* the client resolves the coordinates
ReverseGeocodeClient(backend, nominatim) ==
    /\ call = NoCall
    /\ call' = [fn |-> "client reverseGeocode",
                arg |-> [backend |-> backend, nominatim |-> nominatim],
                result |-> ClientReverseGeocode(backend, nominatim),
                applications |-> 1]
    /\ UNCHANGED <<geoVars, records, response, jobVars>>

\* the caller takes the result
TakeResult ==
    /\ call # NoCall
    /\ call' = NoCall
    /\ UNCHANGED <<geoVars, records, response, jobVars>>

HelperNext ==
    \/ \E district \in DistrictStrings : NormalizeDistrictName(district)
    \/ NormalizeAgain
    \/ \E address \in Addresses : ExtractLocationIQ(address)
    \/ \E address \in Addresses : ExtractReverseGeocode(address)
    \/ \E backend \in BackendReplies, nominatim \in NominatimReplies :
          ReverseGeocodeClient(backend, nominatim)
    \/ TakeResult

SpecHelpers == HelperInit /\ [][HelperNext]_vars

\* C14: normalizeDistrictName is idempotent on every non-null input.
C14_NormalizeIdempotent ==
    (call.fn = "normalizeDistrictName" /\ ~call.arg.nul) =>
        normalizeDistrictName(call.result) = call.result

\* the district the claim's field order selects from an address
DistrictByClaimedOrder(address) ==
    LET state == LocationIQState(address) IN
    IF address.state_district # null /\ address.state_district # state
    THEN address.state_district
    ELSE IF address.city # null /\ state = "Maharashtra" THEN address.city
    ELSE IF address.county # null THEN address.county
    ELSE IF address.district # null THEN address.district
    ELSE IF address.city_district # null THEN address.city_district
    ELSE null

\* C20: the LocationIQ adapter takes the district from the first non-empty
\* of state_district (when it differs from the state), city (Maharashtra
\* only), county, district, city_district.
C20_LocationIQFieldOrder ==
    call.fn \in {"reverseGeocodeLocationIQ", "reverseGeocode"} =>
        call.result.district = DistrictByClaimedOrder(call.arg)

\* C28: the client's reverseGeocode never resolves with a state other than
\* 'Maharashtra'; a backend answer outside Maharashtra ends in the
\* 'Maharashtra only' error.
C28_ClientMaharashtraOnly ==
    call.fn = "client reverseGeocode" =>
        /\ call.result.kind = "resolve" => call.result.state = "Maharashtra"
        /\ (call.arg.backend.ok /\ call.arg.backend.success
            /\ call.arg.backend.state # "Maharashtra") =>
              (call.result.kind = "reject" /\ call.result.message = MAHARASHTRA_ONLY)

====
